---- MODULE Spec2Model ----
(***************************************************************************)
(* Model of profilingpoll/models.py: the Walkthrough denormalisation       *)
(* (m2m_changed receiver denormalize_walkthrough), get_matching_profile    *)
(* and get_next_question, over a small authored data store.                *)
(*                                                                         *)
(* Optional values (Python None / a value) are modelled as sequences:      *)
(* None is <<>>, a present value v is <<v>>.  A float n/d is the reduced   *)
(* pair <<n', d'>>, so that equal floats are equal values.                 *)
(***************************************************************************)
EXTENDS Integers, Sequences, FiniteSets, TLC

\* ------------------------------------------------------------------ bounds
\* Number of operations (calls) a behaviour may perform.
MaxClock == 5

\* Number of calls of a behaviour in which two walkthroughs are served.
MaxCallsTwo == 4

\* Number of calls of a behaviour in which storage operations may fail.
MaxCallsStorage == 4

\* ------------------------------------------------------- optional / float
None == <<>>

Some(v) == <<v>>

RECURSIVE GCD(_, _)
GCD(a, b) == IF b = 0 THEN a ELSE GCD(b, a % b)

\* float(n) / float(d) for small non-negative n and positive d
Float(n, d) == LET g == GCD(n, d) IN <<n \div g, d \div g>>

\* ------------------------------------------------------ authored content
Polls == {"P", "R", "E"}

Profiles == {"X", "Y", "D"}

\* Poll.default_profile (nullable foreign key)
default_profile(p) == IF p = "R" THEN None ELSE Some("D")

Questions == {"Q1", "Q2", "Q3"}

\* Question rows: poll, ordering, created, id
QuestionRow(q) ==
    CASE q = "Q1" -> [poll |-> "P", ordering |-> 0, created |-> 2, id |-> 1]
      [] q = "Q2" -> [poll |-> "P", ordering |-> 0, created |-> 1, id |-> 2]
      [] q = "Q3" -> [poll |-> "R", ordering |-> 0, created |-> 3, id |-> 3]

Answers == {"A1", "A2", "A3", "A4", "A5"}

\* Answer.question
question(a) ==
    CASE a = "A1" -> "Q1"
      [] a = "A2" -> "Q2"
      [] a = "A3" -> "Q2"
      [] a = "A4" -> "Q3"
      [] a = "A5" -> "Q1"

\* AnswerProfile rows
AnswerProfiles ==
    { [answer |-> "A1", profile |-> "X", quantifier |-> 3],
      [answer |-> "A2", profile |-> "X", quantifier |-> 2],
      [answer |-> "A3", profile |-> "Y", quantifier |-> 5],
      [answer |-> "A4", profile |-> "X", quantifier |-> 1],
      [answer |-> "A4", profile |-> "Y", quantifier |-> 1],
      [answer |-> "A5", profile |-> "Y", quantifier |-> -2] }

\* answer.answerprofiles.all()
answerprofiles(a) == {ap \in AnswerProfiles : ap.answer = a}

\* Question.multiple_answers
multiple_answers(q) == FALSE

\* poll.questions.all() as a set
PollQuestions(p) == {q \in Questions : QuestionRow(q).poll = p}

\* Meta.ordering reduced to the primary key
QuestionBefore_ById(q1, q2) == QuestionRow(q1).id < QuestionRow(q2).id

\* Question.Meta.ordering within one poll: (ordering, created, id)
QuestionBefore(q1, q2) ==
    LET r1 == QuestionRow(q1)
        r2 == QuestionRow(q2)
    IN  \/ r1.ordering < r2.ordering
        \/ r1.ordering = r2.ordering /\ r1.created < r2.created
        \/ r1.ordering = r2.ordering /\ r1.created = r2.created /\ r1.id < r2.id

RECURSIVE Ordered(_)
Ordered(qs) ==
    IF qs = {} THEN <<>>
    ELSE LET first == CHOOSE q \in qs : \A r \in qs \ {q} : QuestionBefore(q, r)
         IN  <<first>> \o Ordered(qs \ {first})

\* Poll.get_question_list
get_question_list(p) == Ordered(PollQuestions(p))

Walkthroughs == {"w1", "w2"}

\* ------------------------------------------------------------------ state
VARIABLES
    poll,                \* Walkthrough.poll
    answers,             \* Walkthrough.answers (the answer ledger)
    answered_questions,  \* Walkthrough._answered_questions
    completed,           \* Walkthrough._completed
    progress,            \* Walkthrough._progress
    walkthroughprofiles, \* WalkthroughProfile rows: profile -> quantifier
    clock,               \* datetime.now(), one tick per call
    call                 \* the last call and what it returned

vars == <<poll, answers, answered_questions, completed, progress,
          walkthroughprofiles, clock, call>>

NoTally == [p \in {} |-> 0]

Init ==
    /\ poll \in [Walkthroughs -> Polls]
    /\ answers = [w \in Walkthroughs |-> {}]
    /\ answered_questions = [w \in Walkthroughs |-> {}]
    /\ completed = [w \in Walkthroughs |-> None]
    /\ progress = [w \in Walkthroughs |-> None]
    /\ walkthroughprofiles = [w \in Walkthroughs |-> NoTally]
    /\ clock = 0
    /\ call = [op |-> "new", w |-> "-", a |-> "-", ret |-> None]

\* ------------------------------------------------- denormalize_walkthrough
\* "question already answered -> keep last answer": the other through rows
\* of the question are deleted with a queryset delete.
KeepLastAnswer(ledger, q, a) ==
    IF ~multiple_answers(q)
        THEN {b \in ledger : question(b) # q \/ b = a}
        ELSE ledger

\* AddAnswerProfile with "=" written for "+="
AddAnswerProfile_Assign(ap, wps) ==
    [p \in DOMAIN wps \cup {ap.profile} |->
        IF p = ap.profile THEN ap.quantifier ELSE wps[p]]

\* one iteration of the loop of the 'add' branch
AddAnswerProfile(ap, wps) ==
    IF ap.profile \notin DOMAIN wps
        THEN [p \in DOMAIN wps \cup {ap.profile} |->
                 IF p = ap.profile THEN ap.quantifier ELSE wps[p]]
        ELSE [wps EXCEPT ![ap.profile] = @ + ap.quantifier]

RECURSIVE AddAnswerProfiles(_, _)
AddAnswerProfiles(rows, wps) ==
    IF rows = {} THEN wps
    ELSE LET ap == CHOOSE r \in rows : TRUE
         IN  AddAnswerProfiles(rows \ {ap}, AddAnswerProfile(ap, wps))

\* RemoveAnswerProfile deleting a row that is no longer positive
RemoveAnswerProfile_Prune(ap, wps) ==
    IF ap.profile \in DOMAIN wps
        THEN IF wps[ap.profile] - ap.quantifier <= 0
                 THEN [p \in DOMAIN wps \ {ap.profile} |-> wps[p]]
                 ELSE [wps EXCEPT ![ap.profile] = @ - ap.quantifier]
        ELSE wps

\* one iteration of the loop of the 'remove' branch
RemoveAnswerProfile(ap, wps) ==
    IF ap.profile \in DOMAIN wps
        THEN [wps EXCEPT ![ap.profile] = @ - ap.quantifier]
        ELSE wps

RECURSIVE RemoveAnswerProfiles(_, _)
RemoveAnswerProfiles(rows, wps) ==
    IF rows = {} THEN wps
    ELSE LET ap == CHOOSE r \in rows : TRUE
         IN  RemoveAnswerProfiles(rows \ {ap}, RemoveAnswerProfile(ap, wps))

\* instance.poll.questions.all().count() or 1
all_questions_count(p) ==
    LET n == Cardinality(PollQuestions(p)) IN IF n = 0 THEN 1 ELSE n

\* Progress without the float() conversions: integer division
Progress_IntDiv(answered_questions_count, all_count) ==
    Float(answered_questions_count \div all_count, 1)

Progress(answered_questions_count, all_count) ==
    IF answered_questions_count > 0
        THEN Float(answered_questions_count, all_count)
        ELSE Float(0, 1)

Completed(answered_questions_count, all_count, now) ==
    IF answered_questions_count = all_count THEN Some(now) ELSE None

\* the tail of the handler shared by 'post_add' and 'post_remove'
Denormalize(w, aq) ==
    LET all_count == all_questions_count(poll[w])
        answered_questions_count == Cardinality(aq)
    IN  /\ progress' = [progress EXCEPT
               ![w] = Progress(answered_questions_count, all_count)]
        /\ completed' = [completed EXCEPT
               ![w] = Completed(answered_questions_count, all_count, clock)]

Tick(op, w, a, ret) ==
    /\ clock < MaxClock
    /\ clock' = clock + 1
    /\ call' = [op |-> op, w |-> w, a |-> a, ret |-> ret]

\* RecordAnswer with 'post_add' carrying the key of a row already present
RecordAnswer_NoDedup(w, a) ==
    /\ Tick("recordAnswer", w, a, None)
    /\ UNCHANGED poll
    /\ LET q == question(a)
           added == answers[w] \cup {a}
           aq == answered_questions[w] \cup {q}
       IN  /\ answers' = [answers EXCEPT
                  ![w] = IF q \in answered_questions[w]
                             THEN KeepLastAnswer(added, q, a)
                             ELSE added]
           /\ answered_questions' = [answered_questions EXCEPT ![w] = aq]
           /\ walkthroughprofiles' = [walkthroughprofiles EXCEPT
                  ![w] = AddAnswerProfiles(answerprofiles(a), @)]
           /\ Denormalize(w, aq)

\* walkthrough.answers.add(a): the through row is inserted unless present,
\* then m2m_changed 'post_add' carries the newly added keys.
RecordAnswer(w, a) ==
    /\ Tick("recordAnswer", w, a, None)
    /\ UNCHANGED poll
    /\ IF a \in answers[w]
          THEN UNCHANGED <<answers, answered_questions, completed, progress,
                           walkthroughprofiles>>
          ELSE LET q == question(a)
                   added == answers[w] \cup {a}
                   aq == answered_questions[w] \cup {q}
               IN  /\ answers' = [answers EXCEPT
                          ![w] = IF q \in answered_questions[w]
                                     THEN KeepLastAnswer(added, q, a)
                                     ELSE added]
                   /\ answered_questions' = [answered_questions EXCEPT ![w] = aq]
                   /\ walkthroughprofiles' = [walkthroughprofiles EXCEPT
                          ![w] = AddAnswerProfiles(answerprofiles(a), @)]
                   /\ Denormalize(w, aq)

\* walkthrough.answers.remove(a): the through row is deleted if present and
\* m2m_changed 'post_remove' carries the key either way.
RetractAnswer(w, a) ==
    /\ Tick("retractAnswer", w, a, None)
    /\ UNCHANGED poll
    /\ LET q == question(a)
           aq == answered_questions[w] \ {q}
       IN  /\ answers' = [answers EXCEPT ![w] = @ \ {a}]
           /\ answered_questions' = [answered_questions EXCEPT ![w] = aq]
           /\ walkthroughprofiles' = [walkthroughprofiles EXCEPT
                  ![w] = RemoveAnswerProfiles(answerprofiles(a), @)]
           /\ Denormalize(w, aq)

\* 'post_clear' storing 0 as the other branch does
ClearedProgress_Zero == Float(0, 1)

\* what 'post_clear' stores in _progress
ClearedProgress == None

\* ClearAllAnswers deleting the derived rows of every walkthrough
ClearAllAnswers_Unfiltered(w) ==
    /\ Tick("clearAllAnswers", w, "-", None)
    /\ UNCHANGED poll
    /\ answers' = [answers EXCEPT ![w] = {}]
    /\ answered_questions' = [v \in Walkthroughs |-> {}]
    /\ walkthroughprofiles' = [v \in Walkthroughs |-> NoTally]
    /\ completed' = [completed EXCEPT ![w] = None]
    /\ progress' = [progress EXCEPT ![w] = ClearedProgress]

\* walkthrough.answers.clear(): m2m_changed 'post_clear'
ClearAllAnswers(w) ==
    /\ Tick("clearAllAnswers", w, "-", None)
    /\ UNCHANGED poll
    /\ answers' = [answers EXCEPT ![w] = {}]
    /\ answered_questions' = [answered_questions EXCEPT ![w] = {}]
    /\ walkthroughprofiles' = [walkthroughprofiles EXCEPT ![w] = NoTally]
    /\ completed' = [completed EXCEPT ![w] = None]
    /\ progress' = [progress EXCEPT ![w] = ClearedProgress]

\* ------------------------------------------------------------ Walkthrough
\* order_by('quantifier'): ascending instead of descending
TopRows_Ascending(wps) ==
    {p \in DOMAIN wps : \A r \in DOMAIN wps : wps[p] <= wps[r]}

\* order_by('-quantifier'): rows that may come first
TopRows(wps) == {p \in DOMAIN wps : \A r \in DOMAIN wps : wps[r] <= wps[p]}

\* the values Walkthrough.get_matching_profile may return
get_matching_profile(w) ==
    LET wps == walkthroughprofiles[w]
    IN  IF DOMAIN wps # {}
            THEN {Some(p) : p \in TopRows(wps)}
            ELSE {default_profile(poll[w])}

GetMatchingProfile(w) ==
    /\ \E r \in get_matching_profile(w) : Tick("getMatchingProfile", w, "-", r)
    /\ UNCHANGED <<poll, answers, answered_questions, completed, progress,
                   walkthroughprofiles>>

\* the query without its exclude(): every question of the poll
Unanswered_All(w) == get_question_list(poll[w])

\* poll.questions.all().exclude(id__in=answered ids)
Unanswered(w) ==
    SelectSeq(get_question_list(poll[w]),
              LAMBDA q : q \notin answered_questions[w])

\* Walkthrough.get_next_question
GetNextQuestion(w) ==
    /\ UNCHANGED <<poll, answers, answered_questions, progress,
                   walkthroughprofiles>>
    /\ IF Unanswered(w) # <<>>
          THEN /\ Tick("getNextQuestion", w, "-", Some(Head(Unanswered(w))))
               /\ UNCHANGED completed
          ELSE /\ Tick("getNextQuestion", w, "-", None)
               /\ completed' = [completed EXCEPT
                      ![w] = IF @ = None THEN Some(clock) ELSE @]

\* the calls of one request sequence on walkthrough w
Calls(w) ==
    \/ \E a \in Answers : RecordAnswer(w, a)
    \/ \E a \in Answers : RetractAnswer(w, a)
    \/ ClearAllAnswers(w)
    \/ GetMatchingProfile(w)
    \/ GetNextQuestion(w)

Next == Calls("w1")

\* the calls on walkthrough w while fewer than n calls have been made
CallsUpTo(w, n) ==
    \/ \E a \in Answers : clock < n /\ RecordAnswer(w, a)
    \/ \E a \in Answers : clock < n /\ RetractAnswer(w, a)
    \/ clock < n /\ ClearAllAnswers(w)
    \/ clock < n /\ GetMatchingProfile(w)
    \/ clock < n /\ GetNextQuestion(w)

Spec == Init /\ [][Next]_vars

\* Fresh walkthroughs answering questions of their poll, one answer per
\* question, never replacing or retracting; results may be read in between.
FreshRecord(w) ==
    \E a \in Answers :
        /\ question(a) \in PollQuestions(poll[w])
        /\ question(a) \notin answered_questions[w]
        /\ RecordAnswer(w, a)

NextFresh ==
    \E w \in Walkthroughs :
        \/ FreshRecord(w)
        \/ GetMatchingProfile(w)

SpecFresh == Init /\ [][NextFresh]_vars

\* ------------------------------------------------------- navigation loop
\* A fresh walkthrough driven by the question pages:
\*     q := getNextQuestion(w); if q is none stop; else recordAnswer(w, an
\*     answer of q)
\* The last call tells where the loop is.  Between two iterations the
\* interim result may be displayed (getMatchingProfile).
AtLoopHead ==
    call.op \in {"new", "recordAnswer", "getMatchingProfile"}

LoopAsk(w) == AtLoopHead /\ GetNextQuestion(w)

LoopRecord(w) ==
    /\ call.op = "getNextQuestion" /\ call.ret # None
    /\ \E a \in Answers : question(a) = call.ret[1] /\ RecordAnswer(w, a)

LoopDisplay(w) == AtLoopHead /\ GetMatchingProfile(w)

NextLoop ==
    \/ LoopAsk("w1")
    \/ LoopRecord("w1")
    \/ LoopDisplay("w1")

SpecLoop == Init /\ [][NextLoop]_vars

\* --------------------------------------------------------- storage failure
\* The handler and the m2m call open no transaction: every write is its own
\* statement, and a storage error raised by the (k+1)-th write leaves the k
\* writes before it in place.
StorageError == Some("StorageError")

\* the first j iterations of the loop of the 'add' branch
RECURSIVE AddSomeAnswerProfiles(_, _, _)
AddSomeAnswerProfiles(rows, wps, j) ==
    IF rows = {} \/ j = 0 THEN wps
    ELSE LET ap == CHOOSE r \in rows : TRUE
         IN  AddSomeAnswerProfiles(rows \ {ap}, AddAnswerProfile(ap, wps), j - 1)

\* the first j iterations of the loop of the 'remove' branch
RECURSIVE RemoveSomeAnswerProfiles(_, _, _)
RemoveSomeAnswerProfiles(rows, wps, j) ==
    IF rows = {} \/ j = 0 THEN wps
    ELSE LET ap == CHOOSE r \in rows : TRUE
         IN  RemoveSomeAnswerProfiles(rows \ {ap}, RemoveAnswerProfile(ap, wps), j - 1)

\* answers.add(a) failing after k writes: the through row, the answered
\* question (or the deletion of the other answers), then one tally row per
\* AnswerProfile; the final instance.save() is never reached.
RecordAnswerFails(w, a) ==
    /\ Tick("recordAnswer", w, a, StorageError)
    /\ UNCHANGED <<poll, progress, completed>>
    /\ IF a \in answers[w]
          THEN UNCHANGED <<answers, answered_questions, walkthroughprofiles>>
          ELSE \E k \in 0..(2 + Cardinality(answerprofiles(a))) :
               LET q == question(a)
                   added == answers[w] \cup {a}
               IN  /\ answers' = [answers EXCEPT
                          ![w] = IF k >= 2 /\ q \in answered_questions[w]
                                     THEN KeepLastAnswer(added, q, a)
                                     ELSE IF k >= 1 THEN added ELSE @]
                   /\ answered_questions' = [answered_questions EXCEPT
                          ![w] = IF k >= 2 THEN @ \cup {q} ELSE @]
                   /\ walkthroughprofiles' = [walkthroughprofiles EXCEPT
                          ![w] = IF k > 2
                                     THEN AddSomeAnswerProfiles(answerprofiles(a), @, k - 2)
                                     ELSE @]

\* answers.remove(a) failing after k writes
RetractAnswerFails(w, a) ==
    /\ Tick("retractAnswer", w, a, StorageError)
    /\ UNCHANGED <<poll, progress, completed>>
    /\ \E k \in 0..(2 + Cardinality(answerprofiles(a))) :
           /\ answers' = [answers EXCEPT ![w] = IF k >= 1 THEN @ \ {a} ELSE @]
           /\ answered_questions' = [answered_questions EXCEPT
                  ![w] = IF k >= 2 THEN @ \ {question(a)} ELSE @]
           /\ walkthroughprofiles' = [walkthroughprofiles EXCEPT
                  ![w] = IF k > 2
                             THEN RemoveSomeAnswerProfiles(answerprofiles(a), @, k - 2)
                             ELSE @]

\* answers.clear() failing after k writes: the through rows, the answered
\* questions, the tally rows; the final instance.save() is never reached.
ClearAllAnswersFails(w) ==
    /\ Tick("clearAllAnswers", w, "-", StorageError)
    /\ UNCHANGED <<poll, progress, completed>>
    /\ \E k \in 0..3 :
           /\ answers' = [answers EXCEPT ![w] = IF k >= 1 THEN {} ELSE @]
           /\ answered_questions' = [answered_questions EXCEPT
                  ![w] = IF k >= 2 THEN {} ELSE @]
           /\ walkthroughprofiles' = [walkthroughprofiles EXCEPT
                  ![w] = IF k >= 3 THEN NoTally ELSE @]

FailsUpTo(w, n) ==
    \/ \E a \in Answers : clock < n /\ RecordAnswerFails(w, a)
    \/ \E a \in Answers : clock < n /\ RetractAnswerFails(w, a)
    \/ clock < n /\ ClearAllAnswersFails(w)

NextStorage ==
    \/ CallsUpTo("w1", MaxCallsStorage)
    \/ FailsUpTo("w1", MaxCallsStorage)

SpecStorage == Init /\ [][NextStorage]_vars

\* Two walkthroughs served in any interleaving of their calls.
NextTwo == \E w \in Walkthroughs : CallsUpTo(w, MaxCallsTwo)

SpecTwo == Init /\ [][NextTwo]_vars

\* ============================================================ properties
\* Reference quantities, computed from the authored content and the ledger
\* alone (not through the handler's operators).
RECURSIVE SumQuantifiers(_)
SumQuantifiers(rows) ==
    IF rows = {} THEN 0
    ELSE LET ap == CHOOSE r \in rows : TRUE
         IN  ap.quantifier + SumQuantifiers(rows \ {ap})

\* the weight answer a gives to profile p
Weight(a, p) ==
    SumQuantifiers({ap \in AnswerProfiles : ap.answer = a /\ ap.profile = p})

\* the sum of the weights the answers of a ledger give to profile p
LedgerSum(ledger, p) ==
    SumQuantifiers({ap \in AnswerProfiles : ap.answer \in ledger /\ ap.profile = p})

\* a tally read as a total function: a missing row counts 0
TallyOf(wps, p) == IF p \in DOMAIN wps THEN wps[p] ELSE 0

\* the questions that have an answer in a ledger
QuestionsOf(ledger) == {question(a) : a \in ledger}

Mutations == {"recordAnswer", "retractAnswer", "clearAllAnswers"}

\* C1: in every reachable state, every WalkthroughProfile row of a
\* walkthrough holds the sum of the weights that the answers currently in
\* the walkthrough's ledger give to the row's profile.
C1_TallyIsLedgerSum ==
    \A w \in Walkthroughs : \A p \in DOMAIN walkthroughprofiles[w] :
        walkthroughprofiles[w][p] = LedgerSum(answers[w], p)

\* C2: recording a2 while a different answer a1 of the same question is
\* recorded removes a1 from the ledger, keeps the question answered and
\* changes every profile's tally by weight(a2) - weight(a1).
C2_ReplaceSwapsWeights ==
    [][\A w \in Walkthroughs : \A a1, a2 \in Answers :
          ( /\ call'.op = "recordAnswer" /\ call'.w = w /\ call'.a = a2
            /\ a1 # a2 /\ question(a1) = question(a2)
            /\ a1 \in answers[w] )
          => /\ a1 \notin answers'[w]
             /\ question(a2) \in answered_questions'[w]
             /\ \A p \in Profiles :
                    TallyOf(walkthroughprofiles'[w], p)
                  = TallyOf(walkthroughprofiles[w], p) + Weight(a2, p) - Weight(a1, p)
      ]_vars

\* C3 as stated: after every mutation of w, progress is
\* |answeredQuestions| / |poll.questions|, and 0 when the poll has no
\* question or no question is answered.
C3_ProgressAfterEveryMutation ==
    \A w \in Walkthroughs :
        (call.op \in Mutations /\ call.w = w)
        => LET n == Cardinality(answered_questions[w])
               m == Cardinality(PollQuestions(poll[w]))
           IN  progress[w] = IF m = 0 \/ n = 0 THEN Float(0, 1) ELSE Float(n, m)

\* C3 amended: after every recordAnswer or retractAnswer of w, progress is
\* |answeredQuestions| divided by the number of questions of the poll, a
\* poll without questions counted as having one (so 0 when no question is
\* answered); after clearAllAnswers progress is null.
C3_ProgressAfterMutation ==
    \A w \in Walkthroughs :
        /\ (call.op \in {"recordAnswer", "retractAnswer"} /\ call.w = w)
           => LET n == Cardinality(answered_questions[w])
                  m == Cardinality(PollQuestions(poll[w]))
              IN  progress[w] = Float(n, IF m = 0 THEN 1 ELSE m)
        /\ (call.op = "clearAllAnswers" /\ call.w = w) => progress[w] = None

\* a retraction has left one of two questions answered: progress 0.5
C3_Witness ==
    /\ call.op = "retractAnswer" /\ call.w = "w1"
    /\ poll["w1"] = "P"
    /\ Cardinality(answered_questions["w1"]) = 1
    /\ progress["w1"] = Float(1, 2)

\* C4: while a walkthrough stays complete, no operation changes its
\* completion timestamp (it is set once, at the first completing mutation).
C4_CompletedSetOnce ==
    [][\A w \in Walkthroughs :
          (completed[w] # None /\ completed'[w] # None)
          => completed'[w] = completed[w]
      ]_vars

\* C5: on a fresh walkthrough that only records one answer per question of
\* its poll, the tally has a row exactly for the profiles the recorded
\* answers map to, each row is the sum of the recorded weights, and once all
\* questions of the poll are answered progress is 1.0 and completed is set;
\* A1, A2 gives {X:5} matching X, and A1, A3 gives {X:3, Y:5} matching Y.
C5_FreshRecordingsTally ==
    \A w \in Walkthroughs :
        LET wps == walkthroughprofiles[w]
            qs == PollQuestions(poll[w])
        IN  /\ DOMAIN wps = {ap.profile : ap \in {r \in AnswerProfiles : r.answer \in answers[w]}}
            /\ \A p \in DOMAIN wps : wps[p] = LedgerSum(answers[w], p)
            /\ (qs # {} /\ qs \subseteq QuestionsOf(answers[w]))
               => (progress[w] = Float(1, 1) /\ completed[w] # None)
            /\ answers[w] = {"A1", "A2"}
               => /\ wps = [p \in {"X"} |-> 5]
                  /\ get_matching_profile(w) = {Some("X")}
            /\ answers[w] = {"A1", "A3"}
               => /\ wps = [p \in {"X", "Y"} |-> IF p = "X" THEN 3 ELSE 5]
                  /\ get_matching_profile(w) = {Some("Y")}

\* A1 then A3 were recorded and the match was read: Y
C5_Witness ==
    /\ poll["w1"] = "P"
    /\ answers["w1"] = {"A1", "A3"}
    /\ TallyOf(walkthroughprofiles["w1"], "X") = 3
    /\ TallyOf(walkthroughprofiles["w1"], "Y") = 5
    /\ progress["w1"] = Float(1, 1)
    /\ completed["w1"] # None
    /\ call = [op |-> "getMatchingProfile", w |-> "w1", a |-> "-", ret |-> Some("Y")]

\* C6: retracting the only recorded answer a of its question removes the
\* question from answeredQuestions, subtracts a's weights from the tally,
\* lowers progress by 1/|poll.questions| and nulls the completion timestamp.
C6_RetractOnlyAnswer ==
    [][\A w \in Walkthroughs : \A a \in Answers :
          ( /\ call'.op = "retractAnswer" /\ call'.w = w /\ call'.a = a
            /\ a \in answers[w]
            /\ \A b \in answers[w] : question(b) = question(a) => b = a )
          => LET m == Cardinality(PollQuestions(poll[w]))
                 old == progress[w]
                 new == progress'[w]
             IN  /\ question(a) \notin answered_questions'[w]
                 /\ \A p \in Profiles :
                        TallyOf(walkthroughprofiles'[w], p)
                      = TallyOf(walkthroughprofiles[w], p) - Weight(a, p)
                 /\ m > 0 => /\ old # None /\ new # None
                             /\ (old[1] * new[2] - new[1] * old[2]) * m
                                   = old[2] * new[2]
                 /\ completed'[w] = None
      ]_vars

\* C7: the ledger of a walkthrough never holds two answers of one question.
C7_OneAnswerPerQuestion ==
    \A w \in Walkthroughs : \A a, b \in answers[w] :
        question(a) = question(b) => a = b

\* C8: getMatchingProfile returns a profile whose row holds the maximum
\* quantifier of the tally; with no row it returns the poll's default
\* profile, or none when the poll has no default; it changes no state of
\* any walkthrough.
C8_MatchingProfile ==
    [][\A w \in Walkthroughs :
          (call'.op = "getMatchingProfile" /\ call'.w = w)
          => LET wps == walkthroughprofiles[w]
             IN  /\ UNCHANGED <<poll, answers, answered_questions, completed,
                                progress, walkthroughprofiles>>
                 /\ DOMAIN wps # {}
                    => /\ call'.ret # None
                       /\ call'.ret[1] \in DOMAIN wps
                       /\ \A p \in DOMAIN wps : wps[p] <= wps[call'.ret[1]]
                 /\ DOMAIN wps = {}
                    => call'.ret = default_profile(poll[w])
      ]_vars

\* the match was read from a tally with two different rows
C8_Witness ==
    /\ call = [op |-> "getMatchingProfile", w |-> "w1", a |-> "-", ret |-> Some("Y")]
    /\ DOMAIN walkthroughprofiles["w1"] = {"X", "Y"}
    /\ walkthroughprofiles["w1"]["X"] < walkthroughprofiles["w1"]["Y"]

\* C9: whenever getMatchingProfile is called on a walkthrough with no answer
\* in its ledger and the poll has a default profile, it returns the default.
C9_DefaultWhenNoAnswers ==
    \A w \in Walkthroughs :
        ( /\ call.op = "getMatchingProfile" /\ call.w = w
          /\ answers[w] = {}
          /\ default_profile(poll[w]) # None )
        => call.ret = default_profile(poll[w])

\* the state of one walkthrough
WalkthroughState(w) ==
    <<answers[w], answered_questions[w], walkthroughprofiles[w],
      completed[w], progress[w]>>

\* C10: clearAllAnswers leaves the walkthrough in the empty state (empty
\* ledger, no answered question, no tally row, completed and progress
\* null), whatever the state before; a second clear right after changes
\* nothing.
C10_ClearIsEmptyState ==
    [][\A w \in Walkthroughs :
          (call'.op = "clearAllAnswers" /\ call'.w = w)
          => /\ WalkthroughState(w)' = <<{}, {}, NoTally, None, None>>
             /\ (call.op = "clearAllAnswers" /\ call.w = w)
                => WalkthroughState(w)' = WalkthroughState(w)
      ]_vars

\* a walkthrough was cleared after at least two earlier calls
C10_Witness ==
    /\ call.op = "clearAllAnswers" /\ call.w = "w1"
    /\ clock >= 3
    /\ WalkthroughState("w1") = <<{}, {}, NoTally, None, None>>

\* C11: recording an answer whose question is not a question of the
\* walkthrough's poll is rejected with a mismatched-question error and
\* leaves the walkthrough as it was.
C11_MismatchedQuestionRejected ==
    [][\A w \in Walkthroughs : \A a \in Answers :
          ( /\ call'.op = "recordAnswer" /\ call'.w = w /\ call'.a = a
            /\ question(a) \notin PollQuestions(poll[w]) )
          => /\ call'.ret = Some("MismatchedQuestion")
             /\ WalkthroughState(w)' = WalkthroughState(w)
      ]_vars

\* the (ordering, created, id) key of a question, compared lexicographically
KeyBefore(q, r) ==
    LET k == <<QuestionRow(q).ordering, QuestionRow(q).created, QuestionRow(q).id>>
        l == <<QuestionRow(r).ordering, QuestionRow(r).created, QuestionRow(r).id>>
    IN  \E i \in 1..3 : k[i] < l[i] /\ \A j \in 1..(i - 1) : k[j] = l[j]

\* C13: getNextQuestion returns the question of the poll that is not
\* answered and precedes every other unanswered question of the poll in
\* (ordering, created, id) order; it returns none exactly when every
\* question of the poll is answered; returning a question, it changes no
\* state of the walkthrough.
C13_NextQuestion ==
    [][\A w \in Walkthroughs :
          (call'.op = "getNextQuestion" /\ call'.w = w)
          => LET open == PollQuestions(poll[w]) \ answered_questions[w]
             IN  /\ (call'.ret = None) <=> (open = {})
                 /\ call'.ret # None
                    => /\ call'.ret[1] \in open
                       /\ \A r \in open \ {call'.ret[1]} : KeyBefore(call'.ret[1], r)
                       /\ WalkthroughState(w)' = WalkthroughState(w)
      ]_vars

\* with Q2 answered, Q1 (created later than Q2) is the next question
C13_Witness ==
    /\ poll["w1"] = "P"
    /\ answered_questions["w1"] = {"Q2"}
    /\ call = [op |-> "getNextQuestion", w |-> "w1", a |-> "-", ret |-> Some("Q1")]

\* C14: progress, when set, is a value between 0 and 1.
C14_ProgressInUnitInterval ==
    \A w \in Walkthroughs :
        progress[w] # None
        => (0 <= progress[w][1] /\ progress[w][1] <= progress[w][2])

\* C15: answeredQuestions is exactly the set of questions that have an
\* answer in the ledger.
C15_AnsweredIsLedgerQuestions ==
    \A w \in Walkthroughs : answered_questions[w] = QuestionsOf(answers[w])

\* C16: the completion timestamp is set if and only if the number of
\* answered questions equals the number of questions of the poll, a poll
\* without questions counted as having one.
C16_CompletedIffAllAnswered ==
    \A w \in Walkthroughs :
        LET m == Cardinality(PollQuestions(poll[w]))
        IN  (completed[w] # None)
            <=> (Cardinality(answered_questions[w]) = IF m = 0 THEN 1 ELSE m)

\* C17: recordAnswer and retractAnswer (and the two read calls) never remove
\* a tally row, also when its quantifier reaches zero or below: a step that
\* removes a row is a clearAllAnswers of that walkthrough.
C17_RowsNeverPruned ==
    [][\A w \in Walkthroughs :
          ~(DOMAIN walkthroughprofiles[w] \subseteq DOMAIN walkthroughprofiles'[w])
          => (call'.op = "clearAllAnswers" /\ call'.w = w)
      ]_vars

\* a retraction has brought a row to zero, and the row is still there
C17_Witness ==
    /\ call.op = "retractAnswer" /\ call.w = "w1"
    /\ answers["w1"] = {}
    /\ "X" \in DOMAIN walkthroughprofiles["w1"]
    /\ walkthroughprofiles["w1"]["X"] <= 0

\* C19: recording an answer that is already in the ledger changes nothing
\* of the walkthrough: ledger, answeredQuestions, tally, progress, completed.
C19_RecordTwiceChangesNothing ==
    [][\A w \in Walkthroughs : \A a \in Answers :
          ( /\ call'.op = "recordAnswer" /\ call'.w = w /\ call'.a = a
            /\ a \in answers[w] )
          => WalkthroughState(w)' = WalkthroughState(w)
      ]_vars

\* A4 completed a walkthrough of poll R at time 0 and was recorded again at
\* time 1: the timestamp is still the first one
C19_Witness ==
    /\ poll["w1"] = "R"
    /\ call = [op |-> "recordAnswer", w |-> "w1", a |-> "A4", ret |-> None]
    /\ clock = 2
    /\ answers["w1"] = {"A4"}
    /\ walkthroughprofiles["w1"] = [p \in {"X", "Y"} |-> 1]
    /\ completed["w1"] = Some(0)

\* C18: a call on one walkthrough leaves the ledger, answeredQuestions,
\* tally, progress and completion timestamp of every other walkthrough
\* unchanged, in every interleaving of the calls on the two walkthroughs.
C18_OtherWalkthroughUnchanged ==
    [][\A w \in Walkthroughs :
          call'.w # w => WalkthroughState(w)' = WalkthroughState(w)
      ]_vars

\* both walkthroughs of poll P hold the same answer, and w1 was cleared
\* afterwards while w2 kept its state
C18_Witness ==
    /\ poll["w1"] = "P" /\ poll["w2"] = "P"
    /\ call.op = "clearAllAnswers" /\ call.w = "w1"
    /\ answers["w1"] = {}
    /\ answers["w2"] = {"A1"}
    /\ walkthroughprofiles["w2"] = [p \in {"X"} |-> 3]
    /\ progress["w2"] = Float(1, 2)

\* C12: a mutation that fails with a storage error leaves the ledger and
\* all derived state of the walkthrough exactly as they were before the call.
C12_FailedMutationChangesNothing ==
    [][\A w \in Walkthroughs :
          (call'.ret = StorageError /\ call'.w = w)
          => WalkthroughState(w)' = WalkthroughState(w)
      ]_vars

\* progress read as a fraction, null counted as 0
ProgressOrZero(pr) == IF pr = None THEN <<0, 1>> ELSE pr

\* C20: for a poll with n >= 1 questions, in the navigation loop on a fresh
\* walkthrough getNextQuestion returns the (k+1)-th question of the poll
\* order after k recordings and none exactly after n recordings; each
\* recording adds one answer and raises progress by 1/n; when the loop
\* stops, n answers are recorded, progress is 1.0 and completed is set.
C20_LoopAnswersEveryQuestion ==
    [][LET w == "w1"
           qs == PollQuestions(poll[w])
           n == Cardinality(qs)
           k == Cardinality(answers[w])
       IN  n >= 1 =>
           /\ (call'.op = "getNextQuestion" /\ call'.ret = None)
              => /\ k = n
                 /\ progress'[w] = Float(1, 1)
                 /\ completed'[w] # None
           /\ (call'.op = "getNextQuestion" /\ call'.ret # None)
              => /\ k < n
                 /\ call'.ret[1] \in qs \ QuestionsOf(answers[w])
                 /\ Cardinality({r \in qs : KeyBefore(r, call'.ret[1])}) = k
           /\ call'.op = "recordAnswer"
              => LET old == ProgressOrZero(progress[w])
                     new == ProgressOrZero(progress'[w])
                 IN  /\ Cardinality(answers'[w]) = k + 1
                     /\ k + 1 <= n
                     /\ (new[1] * old[2] - old[1] * new[2]) * n = old[2] * new[2]
      ]_vars

\* the loop on poll P has stopped after two recordings and five calls
C20_Witness ==
    /\ poll["w1"] = "P"
    /\ call = [op |-> "getNextQuestion", w |-> "w1", a |-> "-", ret |-> None]
    /\ clock = 5
    /\ Cardinality(answers["w1"]) = 2
    /\ progress["w1"] = Float(1, 1)
    /\ completed["w1"] # None

====
